---- MODULE Spec2Model ----
(***************************************************************************)
(* Model of the video-hosting backend (package main):                      *)
(*   - apiConfig.dbVideoToSignedVideo        (main.go)                     *)
(*   - apiConfig.handlerUploadVideo          (handler_upload_video.go)     *)
(*   - apiConfig.handlerUploadThumbnail, mimeToExt                         *)
(*   - the routes of the session endpoints   (main.go), whose handlers     *)
(*     live outside the visible sources and follow the written design.     *)
(*                                                                         *)
(* Strings are sequences of atoms.  One-character atoms ("b", ",", "k")    *)
(* are characters; longer atoms ("https://", ".mp4") are literal pieces    *)
(* of a format string that no operation of the program splits.             *)
(* A Go *string is a sequence of length 0 (nil) or 1 (pointer to a value). *)
(***************************************************************************)
EXTENDS Integers, Sequences, FiniteSets, TLC

VARIABLES
    videos,         \* metadata store: video id -> database.Video
    s3objects,      \* object store: keys held in bucket cfg.s3Bucket
    assets,         \* files under cfg.assetsRoot: file name -> content
    reqs,           \* in-flight upload requests (one goroutine per slot)
    resp,           \* the latest answer an upload handler has written
    rin,            \* resolver: the video handed to dbVideoToSignedVideo
    rsign,          \* resolver: whether the signing call will succeed
    rout,           \* resolver: what dbVideoToSignedVideo returned
    refreshTokens,  \* refresh-token rows: token value -> row
    now,            \* wall clock of the session service
    sreqs,          \* session requests: in flight, or answered
    revokeDone      \* token values for which POST /api/revoke has answered

uploadVars  == <<videos, s3objects, assets, reqs, resp>>
resolveVars == <<rin, rsign, rout>>
sessionVars == <<refreshTokens, now, sreqs, revokeDone>>
vars        == <<videos, s3objects, assets, reqs, resp, rin, rsign, rout,
                 refreshTokens, now, sreqs, revokeDone>>

-----------------------------------------------------------------------------
(* Bounds *)

NumUsers   == 2
NumVideos  == 1
NumKeys    == 1
MaxReqs    == 2
MaxLen     == 4
NumTokens  == 2
MaxSReqs   == 2
MaxTime    == 2

Users    == 1..NumUsers
VideoIDs == 1..NumVideos

-----------------------------------------------------------------------------
(* strings *)

Nil      == <<>>
Ptr(s)   == <<s>>
Deref(p) == p[1]

\* strings.HasPrefix
HasPrefix(s, prefix) ==
    /\ Len(s) >= Len(prefix)
    /\ SubSeq(s, 1, Len(prefix)) = prefix

\* strings.Contains
Contains(s, substr) ==
    \E i \in 0..(Len(s) - Len(substr)) :
        SubSeq(s, i + 1, i + Len(substr)) = substr

RECURSIVE SplitFrom(_, _, _)
SplitFrom(s, sep, cur) ==
    IF s = <<>> THEN <<cur>>
    ELSE IF Head(s) = sep THEN <<cur>> \o SplitFrom(Tail(s), sep, <<>>)
    ELSE SplitFrom(Tail(s), sep, Append(cur, Head(s)))

\* strings.Split with a one-character separator: every separator cuts
Split(s, sep) == SplitFrom(s, sep, <<>>)

\* all strings of length <= n over the alphabet
StringsUpTo(alphabet, n) == UNION {[1..k -> alphabet] : k \in 0..n}

-----------------------------------------------------------------------------
(* configuration (apiConfig) *)

s3Bucket == <<"b">>
s3Region == <<"r">>
port     == <<"8091">>

-----------------------------------------------------------------------------
(* database.Video *)

ZeroVideo == [ID |-> 0, UserID |-> 0, ThumbnailURL |-> Nil, VideoURL |-> Nil]

-----------------------------------------------------------------------------
(* Signed Asset Resolver *)

\* 15*60*1e9 nanoseconds, counted here in units of 1e9 ns
PresignExpire == 15 * 60

\* generatePresignedURL: the presign request either fails or yields a URL
\* that carries its expiry and a signature
generatePresignedURL(bucket, key, expire, ok) ==
    IF ok
    THEN [url |-> <<"https://">> \o bucket \o <<".s3.amazonaws.com/">> \o key
                  \o <<"?X-Amz-Expires=", ToString(expire), "&X-Amz-Signature=">>,
          err |-> "nil"]
    ELSE [url |-> <<>>, err |-> "SigningFailure"]

\* Faulty variant: on a signing error the video is handed back as it came
dbVideoToSignedVideo_KeepOnError(video, signOK) ==
    IF video.VideoURL = Nil \/ ~HasPrefix(Deref(video.VideoURL), s3Bucket \o <<",">>)
    THEN [video |-> video, err |-> "nil", signReqs |-> <<>>]
    ELSE LET s3Details == Split(Deref(video.VideoURL), ",")
             req == [bucket |-> s3Details[1], key |-> s3Details[2],
                     expire |-> PresignExpire]
             res == generatePresignedURL(req.bucket, req.key, req.expire, signOK)
         IN  IF res.err # "nil"
             THEN [video |-> video, err |-> res.err, signReqs |-> <<req>>]
             ELSE [video |-> [video EXCEPT !.VideoURL = Ptr(res.url)],
                   err |-> "nil", signReqs |-> <<req>>]

\* Faulty variant: every stored reference is signed, whatever bucket it names
dbVideoToSignedVideo_NoPrefixCheck(video, signOK) ==
    IF video.VideoURL = Nil \/ Len(Split(Deref(video.VideoURL), ",")) < 2
    THEN [video |-> video, err |-> "nil", signReqs |-> <<>>]
    ELSE LET s3Details == Split(Deref(video.VideoURL), ",")
             req == [bucket |-> s3Details[1], key |-> s3Details[2],
                     expire |-> PresignExpire]
             res == generatePresignedURL(req.bucket, req.key, req.expire, signOK)
         IN  IF res.err # "nil"
             THEN [video |-> ZeroVideo, err |-> res.err, signReqs |-> <<req>>]
             ELSE [video |-> [video EXCEPT !.VideoURL = Ptr(res.url)],
                   err |-> "nil", signReqs |-> <<req>>]

\* apiConfig.dbVideoToSignedVideo.  signOK is the outcome of the signing
\* call; signReqs lists the signing requests the call made.
dbVideoToSignedVideo(video, signOK) ==
    IF video.VideoURL = Nil \/ ~HasPrefix(Deref(video.VideoURL), s3Bucket \o <<",">>)
    THEN [video |-> video, err |-> "nil", signReqs |-> <<>>]
    ELSE LET s3Details == Split(Deref(video.VideoURL), ",")
             req == [bucket |-> s3Details[1], key |-> s3Details[2],
                     expire |-> PresignExpire]
             res == generatePresignedURL(req.bucket, req.key, req.expire, signOK)
         IN  IF res.err # "nil"
             THEN [video |-> ZeroVideo, err |-> res.err, signReqs |-> <<req>>]
             ELSE [video |-> [video EXCEPT !.VideoURL = Ptr(res.url)],
                   err |-> "nil", signReqs |-> <<req>>]

\* a signed, time-limited URL carries an expiry and a signature
IsSignedURL(s) == \E i \in 1..Len(s) : s[i] = "?X-Amz-Expires="

\* the videos the resolver is applied to
RefChars      == {"b", ",", "k"}
ResolveInputs ==
    [ID : VideoIDs, UserID : Users,
     ThumbnailURL : {Nil, Ptr(<<"t">>)},
     VideoURL : {Nil} \cup {Ptr(s) : s \in StringsUpTo(RefChars, MaxLen)}]

NoResult == [video |-> ZeroVideo, err |-> "pending", signReqs |-> <<>>]

ResolveInit ==
    /\ rin \in ResolveInputs
    /\ rsign \in BOOLEAN
    /\ rout = NoResult

\* one call of dbVideoToSignedVideo
Resolve ==
    /\ rout = NoResult
    /\ rout' = dbVideoToSignedVideo(rin, rsign)
    /\ UNCHANGED <<rin, rsign, uploadVars, sessionVars>>

-----------------------------------------------------------------------------
(* upload requests *)

\* the Authorization header of a request: absent, carrying a token that
\* auth.ValidateJWT rejects (bad signature, malformed, expired), or carrying
\* a valid token whose subject is sub
AuthHeaders ==
    {[kind |-> "none", sub |-> 0], [kind |-> "invalid", sub |-> 0]}
        \cup {[kind |-> "valid", sub |-> u] : u \in Users}

\* Content-Type headers of the uploaded form file
ContentTypes == {"video/mp4", "video/mp4; codecs=avc1", "image/png", ""}

\* the bytes of an uploaded file
Bodies == {<<"d">>}

\* mime.ParseMediaType: the media type without its parameters, or an error
ParseMediaType(h) ==
    CASE h = "video/mp4"              -> [mediaType |-> "video/mp4", err |-> "nil"]
      [] h = "video/mp4; codecs=avc1" -> [mediaType |-> "video/mp4", err |-> "nil"]
      [] h = "image/png"              -> [mediaType |-> "image/png", err |-> "nil"]
      [] h = "text/plain"             -> [mediaType |-> "text/plain", err |-> "nil"]
      [] OTHER                        -> [mediaType |-> "", err |-> "mime: no media type"]

mimeToExt(mime) ==
    CASE mime = "image/jpeg" -> "jpg"
      [] mime = "image/png"  -> "png"
      [] mime = "image/gif"  -> "gif"
      [] OTHER               -> "bin"

\* the 32 random bytes of an object key, as 6-bit groups
RandomKeys == {<<n>> : n \in 0..(NumKeys - 1)}

Base64URLAlphabet == <<"A", "B", "C", "D", "E", "F", "G", "H">>

\* base64.RawURLEncoding.EncodeToString
EncodeToString(bytes) == [n \in 1..Len(bytes) |-> Base64URLAlphabet[bytes[n] + 1]]

s3KeyStringOf(bytes) == EncodeToString(bytes) \o <<".mp4">>

\* fmt.Sprintf("https://%s.s3.%s.amazonaws.com/%s", bucket, region, key)
videoURLOf(key) ==
    <<"https://">> \o s3Bucket \o <<".s3.">> \o s3Region \o <<".amazonaws.com/">> \o key

\* fmt.Sprintf("%s.%s", videoID.String(), mimeToExt(mediaType))
thumbFileOf(videoID, mediaType) == <<ToString(videoID), ".", mimeToExt(mediaType)>>

\* fmt.Sprintf("http://localhost:%s/assets/%s", cfg.port, filepath.Base(pathToFile))
thumbnailURLOf(file) == <<"http://localhost:">> \o port \o <<"/assets/">> \o file

\* os.CreateTemp(cfg.assetsRoot, "tubely-upload.mp4"): a name no one else has
tempFileOf(i) == <<"tubely-upload.mp4", ToString(i)>>

ThumbFiles == {thumbFileOf(v, h) : v \in VideoIDs, h \in ContentTypes}
TempFiles  == {tempFileOf(i) : i \in 1..MaxReqs}

Slots == 1..MaxReqs

\* what a client sends: the {videoID} path value (0: not a UUID), the
\* Authorization header, and the multipart form file (if any)
UploadRequests ==
    [videoID : VideoIDs \cup {0}, auth : AuthHeaders, hasFile : BOOLEAN,
     ctype : ContentTypes, body : Bodies]

NoAuth == [kind |-> "none", sub |-> 0]

IdleReq ==
    [kind |-> "none", pc |-> "idle", videoID |-> 0, auth |-> NoAuth,
     video |-> ZeroVideo, key |-> <<>>, file |-> <<>>, body |-> <<>>]

NoResponse == [kind |-> "none", videoID |-> 0, auth |-> NoAuth, status |-> 0, url |-> <<>>]

\* respondWithError / respondWithJSON: the answer to a request
Response(kind, videoID, auth, status, url) ==
    [kind |-> kind, videoID |-> videoID, auth |-> auth, status |-> status, url |-> url]

UploadInit ==
    /\ videos = [v \in VideoIDs |->
                    [ID |-> v, UserID |-> ((v - 1) % NumUsers) + 1,
                     ThumbnailURL |-> Nil, VideoURL |-> Nil]]
    /\ s3objects = {}
    /\ assets = [f \in ThumbFiles \cup TempFiles |-> Nil]
    /\ reqs = [i \in Slots |-> IdleReq]
    /\ resp = NoResponse

\* the parts of the state a specification leaves alone
ResolveIdle == rin = ZeroVideo /\ rsign = FALSE /\ rout = NoResult
SessionIdle ==
    /\ refreshTokens = <<>>
    /\ now = 0
    /\ sreqs = <<>>
    /\ revokeDone = {}

\* handlerUploadVideo, from its entry to the PutObject call: the checks of
\* the request in the order of the code, the read of the record
\* (cfg.db.GetVideo), the temporary file and the random object key
handlerUploadVideo_Start(i, r) ==
    /\ reqs[i].pc = "idle"
    /\ LET answer(status) ==
               /\ resp' = Response("video", r.videoID, r.auth, status, <<>>)
               /\ UNCHANGED <<reqs, assets>>
           parsed == ParseMediaType(r.ctype)
       IN  IF r.videoID = 0 THEN answer(400)
           ELSE IF r.auth.kind = "none" THEN answer(401)
           ELSE IF r.auth.kind # "valid" THEN answer(401)
           ELSE \/ answer(500)                       \* GetVideo fails
                \/ IF videos[r.videoID].UserID # r.auth.sub THEN answer(404)
                   ELSE IF ~r.hasFile THEN answer(400)
                   ELSE IF parsed.err # "nil" THEN answer(400)
                   ELSE IF parsed.mediaType # "video/mp4" THEN answer(415)
                   ELSE \* os.CreateTemp or rand.Read fails: the deferred
                        \* os.Remove has taken the temporary file away
                        \/ answer(500)
                        \/ \E keyBytes \in RandomKeys :
                             /\ reqs' = [reqs EXCEPT ![i] =
                                    [IdleReq EXCEPT !.kind = "video", !.pc = "put",
                                                    !.videoID = r.videoID, !.auth = r.auth,
                                                    !.video = videos[r.videoID],
                                                    !.key = s3KeyStringOf(keyBytes),
                                                    !.file = tempFileOf(i),
                                                    !.body = r.body]]
                             /\ assets' = [assets EXCEPT ![tempFileOf(i)] = Ptr(r.body)]
                             /\ UNCHANGED resp
    /\ UNCHANGED <<videos, s3objects, resolveVars, sessionVars>>

\* Faulty variant: a failed PutObject is not noticed and the handler goes on
handlerUploadVideo_PutObject_IgnoreError(i, ok) ==
    /\ reqs[i].pc = "put"
    /\ reqs' = [reqs EXCEPT ![i].pc = "update"]
    /\ s3objects' = IF ok THEN s3objects \cup {reqs[i].key} ELSE s3objects
    /\ UNCHANGED <<videos, assets, resp, resolveVars, sessionVars>>

\* handlerUploadVideo: cfg.s3Client.PutObject and its error check
handlerUploadVideo_PutObject(i, ok) ==
    /\ reqs[i].pc = "put"
    /\ IF ok
       THEN /\ s3objects' = s3objects \cup {reqs[i].key}
            /\ reqs' = [reqs EXCEPT ![i].pc = "update"]
            /\ UNCHANGED <<assets, resp>>
       ELSE /\ resp' = Response("video", reqs[i].videoID, reqs[i].auth, 500, <<>>)
            /\ reqs' = [reqs EXCEPT ![i] = IdleReq]
            /\ assets' = [assets EXCEPT ![reqs[i].file] = Nil]
            /\ UNCHANGED s3objects
    /\ UNCHANGED <<videos, resolveVars, sessionVars>>

\* handlerUploadVideo: cfg.db.UpdateVideo(video), which stores the whole
\* record read at the start with the new VideoURL, and the answer
handlerUploadVideo_UpdateVideo(i, ok) ==
    /\ reqs[i].pc = "update"
    /\ LET videoURL == videoURLOf(reqs[i].key)
           video    == [reqs[i].video EXCEPT !.VideoURL = Ptr(videoURL)]
       IN  IF ok
           THEN /\ videos' = [videos EXCEPT ![video.ID] = video]
                /\ resp' = Response("video", reqs[i].videoID, reqs[i].auth, 200, videoURL)
           ELSE /\ UNCHANGED videos
                /\ resp' = Response("video", reqs[i].videoID, reqs[i].auth, 500, <<>>)
    /\ reqs' = [reqs EXCEPT ![i] = IdleReq]
    /\ assets' = [assets EXCEPT ![reqs[i].file] = Nil]
    /\ UNCHANGED <<s3objects, resolveVars, sessionVars>>

\* handlerUploadThumbnail, from its entry to os.Create(pathToFile)
handlerUploadThumbnail_Create(i, r) ==
    /\ reqs[i].pc = "idle"
    /\ LET answer(status) ==
               /\ resp' = Response("thumbnail", r.videoID, r.auth, status, <<>>)
               /\ UNCHANGED <<reqs, assets>>
           pathToFile == thumbFileOf(r.videoID, r.ctype)
       IN  IF r.videoID = 0 THEN answer(400)
           ELSE IF r.auth.kind = "none" THEN answer(401)
           ELSE IF r.auth.kind # "valid" THEN answer(401)
           ELSE IF ~r.hasFile THEN answer(400)
           ELSE \/ answer(500)                       \* os.Create fails
                \* os.Create makes the file, or truncates the one that is there
                \/ /\ assets' = [assets EXCEPT ![pathToFile] = Ptr(<<>>)]
                   /\ reqs' = [reqs EXCEPT ![i] =
                          [IdleReq EXCEPT !.kind = "thumbnail", !.pc = "copy",
                                          !.videoID = r.videoID, !.auth = r.auth,
                                          !.file = pathToFile, !.body = r.body]]
                   /\ UNCHANGED resp
    /\ UNCHANGED <<videos, s3objects, resolveVars, sessionVars>>

\* handlerUploadThumbnail: io.Copy(newFile, file)
handlerUploadThumbnail_Copy(i, ok) ==
    /\ reqs[i].pc = "copy"
    /\ IF ok
       THEN /\ assets' = [assets EXCEPT ![reqs[i].file] = Ptr(reqs[i].body)]
            /\ reqs' = [reqs EXCEPT ![i].pc = "get"]
            /\ UNCHANGED resp
       ELSE /\ UNCHANGED assets
            /\ reqs' = [reqs EXCEPT ![i] = IdleReq]
            /\ resp' = Response("thumbnail", reqs[i].videoID, reqs[i].auth, 500, <<>>)
    /\ UNCHANGED <<videos, s3objects, resolveVars, sessionVars>>

\* handlerUploadThumbnail: cfg.db.GetVideo and the comparison of the owner
handlerUploadThumbnail_GetVideo(i, ok) ==
    /\ reqs[i].pc = "get"
    /\ LET answer(status) ==
               /\ resp' = Response("thumbnail", reqs[i].videoID, reqs[i].auth, status, <<>>)
               /\ reqs' = [reqs EXCEPT ![i] = IdleReq]
           video == videos[reqs[i].videoID]
       IN  IF ~ok THEN answer(500)
           ELSE IF video.UserID # reqs[i].auth.sub THEN answer(401)
           ELSE /\ reqs' = [reqs EXCEPT ![i].pc = "tupdate",
                                        ![i].video =
                                            [video EXCEPT !.ThumbnailURL =
                                                Ptr(thumbnailURLOf(reqs[i].file))]]
                /\ UNCHANGED resp
    /\ UNCHANGED <<videos, s3objects, assets, resolveVars, sessionVars>>

\* handlerUploadThumbnail: cfg.db.UpdateVideo(video), which stores the whole
\* record, and the answer
handlerUploadThumbnail_UpdateVideo(i, ok) ==
    /\ reqs[i].pc = "tupdate"
    /\ IF ok
       THEN /\ videos' = [videos EXCEPT ![reqs[i].video.ID] = reqs[i].video]
            /\ resp' = Response("thumbnail", reqs[i].videoID, reqs[i].auth, 200,
                                Deref(reqs[i].video.ThumbnailURL))
       ELSE /\ UNCHANGED videos
            /\ resp' = Response("thumbnail", reqs[i].videoID, reqs[i].auth, 500, <<>>)
    /\ reqs' = [reqs EXCEPT ![i] = IdleReq]
    /\ UNCHANGED <<s3objects, assets, resolveVars, sessionVars>>

-----------------------------------------------------------------------------
(* Session service: the routes of main.go, and behind them the handlers and *)
(* the refresh-token store of the written design.                           *)

Patterns == {"POST /api/login", "POST /api/refresh", "POST /api/revoke"}

\* Faulty variant: the revoke route is registered with the refresh handler
mux_RevokeRunsRefresh(pattern) ==
    CASE pattern = "POST /api/login"   -> "handlerLogin"
      [] pattern = "POST /api/refresh" -> "handlerRefresh"
      [] pattern = "POST /api/revoke"  -> "handlerRefresh"
      [] OTHER                         -> "NotFound"

\* mux.HandleFunc: the handler registered for a pattern
mux(pattern) ==
    CASE pattern = "POST /api/login"   -> "handlerLogin"
      [] pattern = "POST /api/refresh" -> "handlerRefresh"
      [] pattern = "POST /api/revoke"  -> "handlerRevoke"
      [] OTHER                         -> "NotFound"

\* refresh tokens live RefreshTTL ticks (60 days)
RefreshTTL == 2

TokenValues == 1..NumTokens
SSlots      == 1..MaxSReqs

NoRow == [exists |-> FALSE, userID |-> 0, expiresAt |-> 0, revoked |-> FALSE]

\* Refresh Token Store, lookup: NotFound, then Expired, then Revoked
lookup(token) ==
    IF token \notin TokenValues \/ ~refreshTokens[token].exists
    THEN [userID |-> 0, err |-> "NotFound"]
    ELSE IF now >= refreshTokens[token].expiresAt
    THEN [userID |-> 0, err |-> "Expired"]
    ELSE IF refreshTokens[token].revoked
    THEN [userID |-> 0, err |-> "Revoked"]
    ELSE [userID |-> refreshTokens[token].userID, err |-> "nil"]

\* Refresh Token Store, revoke: one write of one row, when there is a match
revoke(token) ==
    IF token \in TokenValues /\ refreshTokens[token].exists
    THEN [refreshTokens EXCEPT ![token].revoked = TRUE]
    ELSE refreshTokens

IdleSReq ==
    [pattern |-> "", pc |-> "idle", token |-> 0, userID |-> 0,
     status |-> 0, err |-> "nil", access |-> 0, conc |-> {}]

InFlight(q) == q.pc \notin {"idle", "done"}

\* the request q enters slot i: it runs beside every request in flight
Enter(i, q) ==
    LET beside == {j \in SSlots \ {i} : InFlight(sreqs[j])}
    IN  [j \in SSlots |->
            IF j = i THEN [q EXCEPT !.conc = beside]
            ELSE IF j \in beside THEN [sreqs[j] EXCEPT !.conc = @ \cup {i}]
            ELSE sreqs[j]]

\* what a client can present: a token value it was given at a login, or
\* something that never was a token (0); token values are random and are
\* not guessed before they are issued
Presentable(token) == IF token = 0 THEN TRUE ELSE refreshTokens[token].exists

\* the tokens whose revocation a client has seen answered
Completed(pattern, token, status) ==
    IF pattern = "POST /api/revoke" /\ status \in 200..299 /\ token \in TokenValues
    THEN revokeDone \cup {token}
    ELSE revokeDone

SessionInit ==
    /\ refreshTokens = [t \in TokenValues |-> NoRow]
    /\ now = 0
    /\ sreqs = [i \in SSlots |-> IdleSReq]
    /\ revokeDone = {}

\* login(handle, secret): handle 0 is unknown; one access token and one
\* refresh token (a value never issued before) for the user
handlerLogin(i, pattern, handle, secretOK) ==
    /\ mux(pattern) = "handlerLogin"
    /\ ~InFlight(sreqs[i])
    /\ IF handle \notin Users \/ ~secretOK
       THEN /\ sreqs' = Enter(i, [IdleSReq EXCEPT !.pattern = pattern, !.pc = "done",
                                     !.status = 401, !.err = "InvalidCredentials"])
            /\ UNCHANGED refreshTokens
       ELSE \E t \in TokenValues :
            /\ ~refreshTokens[t].exists
            /\ refreshTokens' = [refreshTokens EXCEPT ![t] =
                    [exists |-> TRUE, userID |-> handle,
                     expiresAt |-> now + RefreshTTL, revoked |-> FALSE]]
            /\ sreqs' = Enter(i, [IdleSReq EXCEPT !.pattern = pattern, !.pc = "done",
                                     !.token = t, !.userID = handle,
                                     !.status = 200, !.access = handle])
    /\ UNCHANGED <<now, revokeDone, uploadVars, resolveVars>>

\* refresh(refreshToken), first half: the lookup in the store
handlerRefresh_Lookup(i, pattern, token) ==
    /\ mux(pattern) = "handlerRefresh"
    /\ ~InFlight(sreqs[i])
    /\ Presentable(token)
    /\ LET found == lookup(token)
       IN  IF found.err # "nil"
           THEN sreqs' = Enter(i, [IdleSReq EXCEPT !.pattern = pattern, !.pc = "done",
                                      !.token = token, !.status = 401,
                                      !.err = found.err])
           ELSE sreqs' = Enter(i, [IdleSReq EXCEPT !.pattern = pattern, !.pc = "issue",
                                      !.token = token, !.userID = found.userID])
    /\ UNCHANGED <<refreshTokens, now, revokeDone, uploadVars, resolveVars>>

\* refresh(refreshToken), second half: a new access token for the user
handlerRefresh_Issue(i) ==
    /\ sreqs[i].pc = "issue"
    /\ sreqs' = [sreqs EXCEPT ![i].pc = "done", ![i].status = 200,
                              ![i].access = sreqs[i].userID]
    /\ revokeDone' = Completed(sreqs[i].pattern, sreqs[i].token, 200)
    /\ UNCHANGED <<refreshTokens, now, uploadVars, resolveVars>>

\* revoke(refreshToken), first half: the write in the store
handlerRevoke_Write(i, pattern, token) ==
    /\ mux(pattern) = "handlerRevoke"
    /\ ~InFlight(sreqs[i])
    /\ Presentable(token)
    /\ refreshTokens' = revoke(token)
    /\ sreqs' = Enter(i, [IdleSReq EXCEPT !.pattern = pattern, !.pc = "respond",
                             !.token = token])
    /\ UNCHANGED <<now, revokeDone, uploadVars, resolveVars>>

\* revoke(refreshToken), second half: 204, whatever the token was
handlerRevoke_Respond(i) ==
    /\ sreqs[i].pc = "respond"
    /\ sreqs' = [sreqs EXCEPT ![i].pc = "done", ![i].status = 204]
    /\ revokeDone' = Completed(sreqs[i].pattern, sreqs[i].token, 204)
    /\ UNCHANGED <<refreshTokens, now, uploadVars, resolveVars>>

\* time passes
Tick ==
    /\ now < MaxTime
    /\ now' = now + 1
    /\ UNCHANGED <<refreshTokens, sreqs, revokeDone, uploadVars, resolveVars>>

Init == UploadInit /\ ResolveIdle /\ SessionIdle

Next ==
    \/ \E i \in Slots, r \in UploadRequests : handlerUploadVideo_Start(i, r)
    \/ \E i \in Slots, ok \in BOOLEAN : handlerUploadVideo_PutObject(i, ok)
    \/ \E i \in Slots, ok \in BOOLEAN : handlerUploadVideo_UpdateVideo(i, ok)
    \/ \E i \in Slots, r \in UploadRequests : handlerUploadThumbnail_Create(i, r)
    \/ \E i \in Slots, ok \in BOOLEAN : handlerUploadThumbnail_Copy(i, ok)
    \/ \E i \in Slots, ok \in BOOLEAN : handlerUploadThumbnail_GetVideo(i, ok)
    \/ \E i \in Slots, ok \in BOOLEAN : handlerUploadThumbnail_UpdateVideo(i, ok)

Spec == Init /\ [][Next]_vars

InitResolve == ResolveInit /\ UploadInit /\ SessionIdle
NextResolve == Resolve
SpecResolve == InitResolve /\ [][NextResolve]_vars

InitSession == SessionInit /\ UploadInit /\ ResolveIdle

NextSession ==
    \/ \E i \in SSlots, p \in Patterns, h \in Users \cup {0}, ok \in BOOLEAN :
            handlerLogin(i, p, h, ok)
    \/ \E i \in SSlots, p \in Patterns, t \in TokenValues \cup {0} : handlerRefresh_Lookup(i, p, t)
    \/ \E i \in SSlots : handlerRefresh_Issue(i)
    \/ \E i \in SSlots, p \in Patterns, t \in TokenValues \cup {0} : handlerRevoke_Write(i, p, t)
    \/ \E i \in SSlots : handlerRevoke_Respond(i)
    \/ Tick

SpecSession == InitSession /\ [][NextSession]_vars

-----------------------------------------------------------------------------
(* Properties of the upload handlers (specification Spec) *)

\* the requester of q is authenticated and is not the owner of q's video
NonOwner(q) ==
    /\ q.kind # "none"
    /\ q.videoID \in VideoIDs
    /\ q.auth.kind = "valid"
    /\ videos[q.videoID].UserID # q.auth.sub

\* C1: whatever the upload handler has stored, what dbVideoToSignedVideo
\* returns for a stored record carries a media location that is absent,
\* empty, or a signed time-limited URL.
C1_ResolvedMediaEmptyOrSigned ==
    \A v \in VideoIDs, signOK \in BOOLEAN :
        LET r == dbVideoToSignedVideo(videos[v], signOK)
        IN  r.err = "nil" =>
                \/ r.video.VideoURL = Nil
                \/ Deref(r.video.VideoURL) = <<>>
                \/ IsSignedURL(Deref(r.video.VideoURL))

\* C2: an upload request without a valid access token is answered 401; one
\* with a valid token of a user who does not own the video is answered 404,
\* never 401 or 403 (400 and 500 stand for a request that failed before the
\* owner was compared).
C2_GuardStatuses ==
    (resp.kind # "none" /\ resp.videoID \in VideoIDs) =>
        /\ resp.auth.kind # "valid" => resp.status = 401
        /\ NonOwner(resp) => resp.status \in {404, 400, 500}

\* C8: a step of an upload request whose authenticated requester is not the
\* video's owner changes neither the records, nor the object store, nor the
\* thumbnail files.
C8_NonOwnerChangesNothing ==
    [][ ( \/ \E i \in Slots :
                /\ reqs'[i] # reqs[i]
                /\ NonOwner(IF reqs'[i].pc # "idle" THEN reqs'[i] ELSE reqs[i])
          \/ reqs' = reqs /\ resp' # resp /\ NonOwner(resp') )
        => /\ videos' = videos
           /\ s3objects' = s3objects
           /\ \A f \in ThumbFiles : assets'[f] = assets[f] ]_vars

\* C9: the write of the record that ends an upload with 200 leaves the field
\* of the other handler as the store holds it: a media upload does not change
\* the stored thumbnail reference, a thumbnail upload does not change the
\* stored media reference.
C9_NoLostUpdate ==
    [][ \A i \in Slots :
            (reqs[i].pc \in {"update", "tupdate"} /\ reqs'[i].pc = "idle"
                /\ resp'.status = 200)
            => LET v == reqs[i].videoID
               IN  /\ reqs[i].kind = "video" =>
                        videos'[v].ThumbnailURL = videos[v].ThumbnailURL
                   /\ reqs[i].kind = "thumbnail" =>
                        videos'[v].VideoURL = videos[v].VideoURL ]_vars

\* every stored media reference names an object the store holds
MediaReferenceHeld ==
    \A v \in VideoIDs :
        videos[v].VideoURL # Nil =>
            \E k \in s3objects : Deref(videos[v].VideoURL) = videoURLOf(k)

\* a step that gives a record a media reference it did not have finds the
\* object in the store already; a request answered without leaving the
\* handler's entry (415 among them) or failing at the put changes no reference
MediaReferenceSteps ==
    /\ \A v \in VideoIDs :
          (videos'[v].VideoURL # videos[v].VideoURL /\ videos'[v].VideoURL # Nil)
            => \E k \in s3objects : Deref(videos'[v].VideoURL) = videoURLOf(k)
    /\ ( \/ reqs' = reqs
         \/ \E i \in Slots : reqs[i].pc = "put" /\ reqs'[i].pc = "idle" )
        => \A v \in VideoIDs : videos'[v].VideoURL = videos[v].VideoURL

\* C10: a media reference in a record names an object the object store
\* holds; the record is written only after the put has succeeded, and a
\* request that fails before or at the put, or is answered 415, leaves the
\* media references as they were.
C10_ReferenceNamesStoredObject ==
    [][MediaReferenceSteps]_vars /\ []MediaReferenceHeld

\* a record carries a media reference, and a later media upload was answered 415
C10_Witness ==
    /\ \E v \in VideoIDs : videos[v].VideoURL # Nil
    /\ resp.kind = "video" /\ resp.status = 415

-----------------------------------------------------------------------------
(* Properties of dbVideoToSignedVideo (specification SpecResolve) *)

\* the reference of the input is "<bucket>,<key>" with the configured bucket
RefKeys == StringsUpTo(RefChars, MaxLen)
IsBucketRef(video) ==
    /\ video.VideoURL # Nil
    /\ \E key \in RefKeys : Deref(video.VideoURL) = s3Bucket \o <<",">> \o key

KeyOfRef(video) ==
    SubSeq(Deref(video.VideoURL), Len(s3Bucket) + 2, Len(Deref(video.VideoURL)))

\* C5: when the signing call fails, dbVideoToSignedVideo returns an error and
\* a video without any media location.
C5_SigningFailureHidesReference ==
    (rout # NoResult /\ IsBucketRef(rin) /\ ~rsign) =>
        /\ rout.err # "nil"
        /\ rout.video.VideoURL = Nil

\* the signing call was made for a reference of the configured bucket and failed
C5_Witness ==
    rout # NoResult /\ IsBucketRef(rin) /\ ~rsign /\ rout.err = "SigningFailure"

\* C6: a video without a media reference, or with one that does not start
\* with the configured bucket and a comma, comes back unchanged and without
\* error, and no signing request is made.
C6_UnchangedWithoutBucketRef ==
    (rout # NoResult /\ ~IsBucketRef(rin)) =>
        /\ rout.video = rin
        /\ rout.err = "nil"
        /\ rout.signReqs = <<>>

\* the reference names another bucket
C6_Witness ==
    /\ rout # NoResult
    /\ rin.VideoURL = Ptr(<<"k", ",", "b">>)
    /\ rout.video = rin

\* C7: for the reference "<bucket>,<key>" and a signing call that succeeds,
\* one signed URL is requested for that bucket and that key with an expiry
\* of 15 minutes, and the video returned carries that URL, which differs from
\* the reference and does not contain it; the other fields are the input's.
C7_SignsBucketAndKey ==
    (rout # NoResult /\ IsBucketRef(rin) /\ rsign) =>
        LET ref == Deref(rin.VideoURL)
            req == [bucket |-> s3Bucket, key |-> KeyOfRef(rin), expire |-> 900]
        IN  /\ rout.err = "nil"
            /\ rout.signReqs = <<req>>
            /\ rout.video = [rin EXCEPT !.VideoURL =
                    Ptr(generatePresignedURL(req.bucket, req.key, req.expire, TRUE).url)]
            /\ Deref(rout.video.VideoURL) # ref
            /\ ~Contains(Deref(rout.video.VideoURL), ref)

-----------------------------------------------------------------------------
(* Properties of the session service (specification SpecSession) *)

\* this step is the arrival of a request in slot i
Started(i) == ~InFlight(sreqs[i]) /\ sreqs'[i] # sreqs[i]

\* a refresh that arrives for a token whose revocation has been answered is
\* answered 401 with one of the errors errsOf gives for the token, and
\* carries no access token
RefusedAfterRevoke(errsOf(_)) ==
    \A i \in SSlots :
        LET t == sreqs'[i].token
        IN  ( /\ Started(i)
              /\ sreqs'[i].pattern = "POST /api/refresh"
              /\ t \in revokeDone )
            => /\ sreqs'[i].pc = "done"
               /\ sreqs'[i].status = 401
               /\ sreqs'[i].err \in errsOf(t)
               /\ sreqs'[i].access = 0

\* a refresh that arrives for a revoked or expired token yields no access
\* token, and access tokens come from a login or a lookup that passed
NeverYields ==
    \A i \in SSlots :
        /\ ( /\ Started(i)
             /\ sreqs'[i].pattern = "POST /api/refresh"
             /\ sreqs'[i].token \in TokenValues
             /\ \/ refreshTokens[sreqs'[i].token].revoked
                \/ now >= refreshTokens[sreqs'[i].token].expiresAt )
           => /\ sreqs'[i].pc = "done"
              /\ sreqs'[i].status = 401
              /\ sreqs'[i].access = 0
        /\ (sreqs'[i].access # sreqs[i].access /\ sreqs'[i].access # 0)
           => \/ sreqs[i].pc = "issue"
              \/ sreqs'[i].pattern = "POST /api/login"

\* no step takes a revocation back
RevokedStaysRevoked ==
    \A t \in TokenValues : refreshTokens[t].revoked => refreshTokens'[t].revoked

\* revoking a revoked token changes no row, and a revoke is answered 204
SecondRevokeIsNoOp ==
    \A i \in SSlots :
        /\ ( /\ Started(i)
             /\ sreqs'[i].pattern = "POST /api/revoke"
             /\ sreqs'[i].token \in TokenValues
             /\ refreshTokens[sreqs'[i].token].revoked )
           => refreshTokens' = refreshTokens
        /\ (sreqs[i].pc = "respond" /\ sreqs'[i].pc = "done") => sreqs'[i].status = 204

AlwaysRevoked(t) == {"Revoked"}
RevokedOrExpired(t) ==
    IF now >= refreshTokens[t].expiresAt THEN {"Expired", "Revoked"} ELSE {"Revoked"}

RanTogether(i, j) ==
    /\ i # j
    /\ sreqs[i].pc = "done" /\ sreqs[j].pc = "done"
    /\ sreqs[i].pattern = "POST /api/refresh"
    /\ sreqs[j].pattern = "POST /api/revoke"
    /\ sreqs[j].status \in 200..299
    /\ sreqs[i].token = sreqs[j].token
    /\ sreqs[i].token \in TokenValues
    /\ j \in sreqs[i].conc /\ i \in sreqs[j].conc
    /\ sreqs[i].err # "Expired"

ConcurrentOutcome ==
    \A i, j \in SSlots :
        RanTogether(i, j) =>
            /\ refreshTokens[sreqs[i].token].revoked
            /\ \/ sreqs[i].status = 200 /\ sreqs[i].access # 0
               \/ sreqs[i].status = 401 /\ sreqs[i].err = "Revoked"
                    /\ sreqs[i].access = 0

\* a refresh that arrives once the revoke's write is in the store does not
\* pass the lookup
NoPassAfterWrite ==
    \A i \in SSlots :
        ( /\ Started(i)
          /\ sreqs'[i].pattern = "POST /api/refresh"
          /\ sreqs'[i].token \in TokenValues
          /\ refreshTokens[sreqs'[i].token].revoked )
        => sreqs'[i].pc = "done" /\ sreqs'[i].status = 401

\* C4: a revoke and a refresh of the same active token that run together end
\* with the token revoked and the refresh either answered 200 or refused
\* with Revoked; no refresh passes once the revoke's write is in the store.
C4_ConcurrentRevokeRefresh ==
    []ConcurrentOutcome /\ [][NoPassAfterWrite]_vars

\* the refresh passed its lookup before the revoke's write and was answered
\* 200 after the revoke was answered
C4_Witness ==
    \E i, j \in SSlots :
        /\ RanTogether(i, j)
        /\ sreqs[i].status = 200
        /\ refreshTokens[sreqs[i].token].revoked

====
